---- MODULE Spec2Model ----
(***************************************************************************)
(* A model of cloud-spec: the Step Functions client of the AWS toolkit     *)
(* (stepFunctions.execute with its express and standard paths), the        *)
(* cloudSpec() test harness (setup / test / afterAll, output registry),    *)
(* the stack name derivation, the EphemeralResourcesAspect and the s3      *)
(* helpers with the toHaveKey matcher.                                     *)
(***************************************************************************)
EXTENDS Integers, Sequences, FiniteSets, TLC

VARIABLES
    \* ---- stepFunctions.execute: one call, and the workflow service ----
    pc,           \* position of the call: idle, describeSM, sync, start, status, sleep, done
    now,          \* Date.now(), in ms
    startTime,    \* const startTime = Date.now()
    timeout,      \* the timeout argument
    isExpress,    \* let isExpress
    result,       \* what the call returned or threw
    nDescribeSM,  \* DescribeStateMachineCommand sent
    nStartSync,   \* StartSyncExecutionCommand sent
    nStart,       \* StartExecutionCommand sent
    nStatus,      \* DescribeExecutionCommand sent
    nSleep,       \* setTimeout(resolve, 5000) started
    remoteLog,    \* the responses of the service to status / sync calls, in order
    issuedAt,     \* the time the last status query was sent
    failedCall,   \* the remote call that rejected, if one did
    nStop,        \* StopExecutionCommand sent
    \* ---- the toCompleteStepFunctionsExecution matcher: one call ----
    mPc,          \* position of the call: idle, describeSM, sync, start, status, sleep, done
    mExpected,    \* properties.result
    mIsExpress,   \* let isExpress
    mResult,      \* what the call returned or threw
    mFault,       \* the remote call that rejected, if one did
    mStatus,      \* the status of the latest answer of the service
    nMStatus,     \* DescribeExecutionCommand sent
    execStatus,   \* what stepFunctions.execute makes of the same answers
    \* ---- cloudSpec(): one instance, its describe groups, the control plane ----
    app,          \* let app: the App of the latest setup
    stackName,    \* let stackName
    outputs,      \* let outputs = {}
    described,    \* the describe groups collected so far
    groupName,    \* per group: the suite name handed to its beforeAll hooks
    setupPc,      \* per group: position of its beforeAll hook
    setupsRun,    \* per group: beforeAll hooks started
    inflight,     \* per group: the arguments of setupAndDeploy and the declared CfnOutputs
    callback,     \* the group whose createResources callback is running, 0 if none
    registerCalls,\* calls of setOutputs made by the running callback
    remoteStacks, \* control plane: the names of the stacks that are deployed
    outputsFiles, \* stack name -> content of `${stackName}-outputs.json`
    ownOutputs,   \* per group: the outputs its own latest deployment returned
    everSet,      \* outputs has been assigned at least once
    testsRun,     \* per group: test bodies invoked
    lastTest,     \* the latest invocation testFn(outputs) and the read it made
    submits,      \* per group: cli.deploy calls of its latest beforeAll hook
    imports,      \* per group: import(outputsFile) calls of its latest beforeAll hook
    importCache,  \* module cache: outputs file path -> the module loaded from it
    lastImport,   \* the latest import(outputsFile) that resolved and what came of it
    deployedEver, \* the names of the stacks deployed during the run
    \* ---- cloudSpec(): the afterAll hook ----
    teardownPc,   \* position of the afterAll hook: pending, destroying, done, rejected
    destroyEnv,   \* process.env.CLOUDSPEC_DESTROY_AFTER_TEST as the hook read it
    destroyRequests, \* the stack names cli.destroy was called for
    destroyFailed,\* cli.destroy rejected
    \* ---- name derivation ----
    inferCalls,   \* the calls of inferStackName made, with their results
    testApps,     \* the call of createTestApp made, with its stack name
    \* ---- the stack handed to app.synth() ----
    graph,        \* the constructs of the stack, with their policies
    synthPc,      \* constructing, submitted, synthThrew
    constructed,  \* the stack as createResources left it, before any visit
    traversal,    \* the order in which the aspect visited the nodes
    \* ---- s3 and the object store ----
    store,        \* key -> the bytes stored under it
    putBody,      \* key -> the body of the latest createObject that returned true
    lastOp        \* the latest call and what it returned

execVars == <<pc, now, startTime, timeout, isExpress, result, nDescribeSM,
              nStartSync, nStart, nStatus, nSleep, remoteLog, issuedAt, failedCall,
              nStop>>

matcherVars == <<mPc, mExpected, mIsExpress, mResult, mFault,
                 mStatus, nMStatus, execStatus>>

setupVars == <<app, stackName, outputs, described, groupName, setupPc, setupsRun, inflight,
               callback, registerCalls, remoteStacks, outputsFiles, ownOutputs,
               everSet, testsRun, lastTest, submits, imports, importCache, lastImport,
               deployedEver>>

teardownVars == <<teardownPc, destroyEnv, destroyRequests, destroyFailed>>

cloudVars == <<setupVars, teardownVars>>

nameVars == <<inferCalls, testApps>>

graphVars == <<graph, synthPc, constructed, traversal>>

s3Vars == <<store, putBody, lastOp>>

probeVars == <<nameVars, graphVars, s3Vars>>

vars == <<execVars, matcherVars, cloudVars, probeVars>>

-----------------------------------------------------------------------------
(* Bounds of the model *)

MaxTimeoutSteps == 3
\* timeout arguments below zero
MaxNegativeTimeoutSteps == 2
MaxLatencySteps == 2
\* describe groups using the one cloudSpec() instance
MaxGroups == 2
\* setup calls (beforeAll hooks) made in all groups together
MaxSetups == 2
\* setOutputs calls per construction callback
MaxRegisterCalls == 2
\* test bodies run in all groups together
MaxTests == 1
\* characters of a group name
MaxNameLen == 3
\* constructs a callback adds to the stack
MaxNodes == 2
\* code units of a string body, bytes of a buffer body
MaxBodyLen == 2

\* the timeout arguments tried, in ms (0 and negative numbers included: a
\* deadline that has expired when the call is made)
Timeouts == {k * 3000 : k \in (0 - MaxNegativeTimeoutSteps)..MaxTimeoutSteps}
\* the time a remote call takes until the awaiting code resumes, in ms
Latencies == {k * 2000 : k \in 0..MaxLatencySteps}

-----------------------------------------------------------------------------
(* Program constants *)

\* await new Promise(resolve => setTimeout(resolve, 5000))
PollIntervalMs == 5000

\* ['SUCCEEDED', 'FAILED', 'TIMED_OUT', 'ABORTED']
TerminalStatuses == {"SUCCEEDED", "FAILED", "TIMED_OUT", "ABORTED"}

\* What DescribeExecution can answer besides the terminal statuses
NonTerminalStatuses == {"RUNNING", "PENDING_REDRIVE"}
ExecutionStatuses == TerminalStatuses \cup NonTerminalStatuses

\* What StartSyncExecution can answer
SyncStatuses == {"SUCCEEDED", "FAILED", "TIMED_OUT"}

\* The type field of DescribeStateMachine
StateMachineTypes == {"STANDARD", "EXPRESS"}

-----------------------------------------------------------------------------
(* JSON on the wire and parsed *)

\* an absent (undefined) field of a response
Undefined == "<undefined>"

\* the output strings the service sends for a succeeded execution
WireOutputs == {"{\"hello\":\"world\"}", "{\"hello\":\"express world\"}", "{}", ""}

EmptyObject == [k \in {} |-> ""]

\* JSON.parse on the wire strings above
JSONParse(s) ==
    CASE s = "{\"hello\":\"world\"}" -> [hello |-> "world"]
      [] s = "{\"hello\":\"express world\"}" -> [hello |-> "express world"]
      [] s = "{}" -> EmptyObject

\* output || '{}' : undefined and the empty string are falsy
OrEmptyObject(s) == IF s = Undefined \/ s = "" THEN "{}" ELSE s

\* an optional field of the returned object: absent, or present with a value
Absent == {}
Present(v) == {v}

\* the service sends an output with SUCCEEDED only
OutputsFor(s) == IF s = "SUCCEEDED" THEN WireOutputs \cup {Undefined} ELSE {Undefined}

-----------------------------------------------------------------------------
(* Results of a call *)

NoResult == [kind |-> "none", status |-> "", output |-> Absent]
Thrown == [kind |-> "error", status |-> "", output |-> Absent]
Outcome(s, o) == [kind |-> "outcome", status |-> s, output |-> o]

\* { status, output: JSON.parse(output || '{}'), executionArn }
RemoteOutcome(s, raw) == Outcome(s, Present(JSONParse(OrEmptyObject(raw))))

\* { status: 'TIMED_OUT', executionArn }
LocalTimeoutOutcome == Outcome("TIMED_OUT", Absent)

-----------------------------------------------------------------------------
(* stepFunctions.execute *)

ExecInit ==
    /\ pc = "idle"
    /\ now = 0
    /\ startTime = 0
    /\ timeout = 0
    /\ isExpress = FALSE
    /\ result = NoResult
    /\ nDescribeSM = 0
    /\ nStartSync = 0
    /\ nStart = 0
    /\ nStatus = 0
    /\ nSleep = 0
    /\ remoteLog = <<>>
    /\ issuedAt = 0
    /\ failedCall = "none"
    /\ nStop = 0

\* execute({stateMachineArn, input, timeout}): takes the start time, then awaits
\* isExpressStateMachine, which sends DescribeStateMachine
Execute(t) ==
    /\ pc = "idle"
    /\ timeout' = t
    /\ startTime' = now
    /\ nDescribeSM' = nDescribeSM + 1
    /\ pc' = "describeSM"
    /\ UNCHANGED <<cloudVars, probeVars, matcherVars>>
    /\ UNCHANGED nStop
    /\ UNCHANGED <<now, isExpress, result, nStartSync, nStart, nStatus, nSleep,
                   remoteLog, issuedAt, failedCall>>

\* mutant: a rejected DescribeStateMachine is taken for a standard workflow
DescribeSMFailsAssumesStandard(lat) ==
    /\ pc = "describeSM"
    /\ now' = now + lat
    /\ failedCall' = "describeSM"
    /\ isExpress' = FALSE
    /\ nStart' = nStart + 1
    /\ pc' = "start"
    /\ UNCHANGED <<cloudVars, probeVars, matcherVars>>
    /\ UNCHANGED nStop
    /\ UNCHANGED <<startTime, timeout, result, nDescribeSM, nStartSync, nStatus,
                   nSleep, remoteLog, issuedAt>>

\* DescribeStateMachine rejects: isExpressStateMachine rethrows, execute throws
DescribeSMFails(lat) ==
    /\ pc = "describeSM"
    /\ now' = now + lat
    /\ result' = Thrown
    /\ failedCall' = "describeSM"
    /\ pc' = "done"
    /\ UNCHANGED <<cloudVars, probeVars, matcherVars>>
    /\ UNCHANGED nStop
    /\ UNCHANGED <<startTime, timeout, isExpress, nDescribeSM, nStartSync, nStart,
                   nStatus, nSleep, remoteLog, issuedAt>>

\* DescribeStateMachine answers: execute dispatches on the type and the chosen
\* path sends its first command
DescribeSMReturns(lat, type) ==
    /\ pc = "describeSM"
    /\ now' = now + lat
    /\ isExpress' = (type = "EXPRESS")
    /\ IF isExpress'
         THEN /\ nStartSync' = nStartSync + 1
              /\ pc' = "sync"
              /\ UNCHANGED nStart
         ELSE /\ nStart' = nStart + 1
              /\ pc' = "start"
              /\ UNCHANGED nStartSync
    /\ UNCHANGED <<cloudVars, probeVars, matcherVars>>
    /\ UNCHANGED nStop
    /\ UNCHANGED <<startTime, timeout, result, nDescribeSM, nStatus, nSleep,
                   remoteLog, issuedAt, failedCall>>

\* mutant: a FAILED answer of StartSyncExecution is thrown
SyncReturnsThrowsOnFailed(lat, s, raw) ==
    /\ pc = "sync"
    /\ now' = now + lat
    /\ remoteLog' = Append(remoteLog, [status |-> s, output |-> raw, at |-> now'])
    /\ result' = IF s = "FAILED" THEN Thrown ELSE RemoteOutcome(s, raw)
    /\ pc' = "done"
    /\ UNCHANGED <<cloudVars, probeVars, matcherVars>>
    /\ UNCHANGED nStop
    /\ UNCHANGED <<startTime, timeout, isExpress, nDescribeSM, nStartSync, nStart,
                   nStatus, nSleep, issuedAt, failedCall>>

\* mutant: after the synchronous call the execution is polled as well
SyncReturnsThenPolls(lat, s, raw) ==
    /\ pc = "sync"
    /\ now' = now + lat
    /\ remoteLog' = Append(remoteLog, [status |-> s, output |-> raw, at |-> now'])
    /\ nStatus' = nStatus + 1
    /\ issuedAt' = now'
    /\ pc' = "status"
    /\ UNCHANGED <<cloudVars, probeVars, matcherVars>>
    /\ UNCHANGED nStop
    /\ UNCHANGED <<startTime, timeout, isExpress, result, nDescribeSM, nStartSync, nStart,
                   nSleep, failedCall>>

\* executeExpressStepFunctions: StartSyncExecution answers
SyncReturns(lat, s, raw) ==
    /\ pc = "sync"
    /\ now' = now + lat
    /\ remoteLog' = Append(remoteLog, [status |-> s, output |-> raw, at |-> now'])
    /\ result' = RemoteOutcome(s, raw)
    /\ pc' = "done"
    /\ UNCHANGED <<cloudVars, probeVars, matcherVars>>
    /\ UNCHANGED nStop
    /\ UNCHANGED <<startTime, timeout, isExpress, nDescribeSM, nStartSync, nStart,
                   nStatus, nSleep, issuedAt, failedCall>>

\* executeExpressStepFunctions: StartSyncExecution rejects, the error is rethrown
SyncFails(lat) ==
    /\ pc = "sync"
    /\ now' = now + lat
    /\ result' = Thrown
    /\ failedCall' = "sync"
    /\ pc' = "done"
    /\ UNCHANGED <<cloudVars, probeVars, matcherVars>>
    /\ UNCHANGED nStop
    /\ UNCHANGED <<startTime, timeout, isExpress, nDescribeSM, nStartSync, nStart,
                   nStatus, nSleep, remoteLog, issuedAt>>

\* mutant: the deadline is tested before the first status query
StartReturnsChecksDeadline(lat) ==
    /\ pc = "start"
    /\ now' = now + lat
    /\ IF now' - startTime > timeout
         THEN /\ pc' = "done"
              /\ result' = LocalTimeoutOutcome
              /\ UNCHANGED <<nStatus, issuedAt>>
         ELSE /\ pc' = "status"
              /\ nStatus' = nStatus + 1
              /\ issuedAt' = now'
              /\ UNCHANGED result
    /\ UNCHANGED <<cloudVars, probeVars, matcherVars>>
    /\ UNCHANGED nStop
    /\ UNCHANGED <<startTime, timeout, isExpress, nDescribeSM, nStartSync,
                   nStart, nSleep, remoteLog, failedCall>>

\* mutant: the loop sleeps before its first status query
StartReturnsSleepsFirst(lat) ==
    /\ pc = "start"
    /\ now' = now + lat
    /\ nSleep' = nSleep + 1
    /\ pc' = "sleep"
    /\ UNCHANGED <<cloudVars, probeVars, matcherVars>>
    /\ UNCHANGED nStop
    /\ UNCHANGED <<startTime, timeout, isExpress, result, nDescribeSM, nStartSync,
                   nStart, nStatus, remoteLog, issuedAt, failedCall>>

\* mutant: the deadline runs from the moment the execution was started
StartReturnsRestartsClock(lat) ==
    /\ pc = "start"
    /\ now' = now + lat
    /\ startTime' = now'
    /\ nStatus' = nStatus + 1
    /\ issuedAt' = now'
    /\ pc' = "status"
    /\ UNCHANGED <<cloudVars, probeVars, matcherVars>>
    /\ UNCHANGED nStop
    /\ UNCHANGED <<timeout, isExpress, result, nDescribeSM, nStartSync,
                   nStart, nSleep, remoteLog, failedCall>>

\* executeStandardStepFunctions: StartExecution answers, the loop is entered and
\* getExecutionStatus sends the first DescribeExecution
StartReturns(lat) ==
    /\ pc = "start"
    /\ now' = now + lat
    /\ nStatus' = nStatus + 1
    /\ issuedAt' = now'
    /\ pc' = "status"
    /\ UNCHANGED <<cloudVars, probeVars, matcherVars>>
    /\ UNCHANGED nStop
    /\ UNCHANGED <<startTime, timeout, isExpress, result, nDescribeSM, nStartSync,
                   nStart, nSleep, remoteLog, failedCall>>

\* executeStandardStepFunctions: StartExecution rejects, the error is rethrown
StartFails(lat) ==
    /\ pc = "start"
    /\ now' = now + lat
    /\ result' = Thrown
    /\ failedCall' = "start"
    /\ pc' = "done"
    /\ UNCHANGED <<cloudVars, probeVars, matcherVars>>
    /\ UNCHANGED nStop
    /\ UNCHANGED <<startTime, timeout, isExpress, nDescribeSM, nStartSync, nStart,
                   nStatus, nSleep, remoteLog, issuedAt>>

\* mutant: the deadline check with >= in place of >
DeadlineExceededInclusive(t) == t - startTime >= timeout

\* Date.now() - startTime > timeout
DeadlineExceeded(t) == t - startTime > timeout

\* mutant: the deadline is checked before the status
PollStepDeadlineFirst(s, raw, t) ==
    IF DeadlineExceeded(t)
      THEN [pc |-> "done", result |-> LocalTimeoutOutcome]
      ELSE IF s \in TerminalStatuses
             THEN [pc |-> "done", result |-> RemoteOutcome(s, raw)]
             ELSE [pc |-> "sleep", result |-> NoResult]

\* mutant: only SUCCEEDED ends the loop
PollStepSucceededOnly(s, raw, t) ==
    IF s = "SUCCEEDED"
      THEN [pc |-> "done", result |-> RemoteOutcome(s, raw)]
      ELSE IF DeadlineExceeded(t)
             THEN [pc |-> "done", result |-> LocalTimeoutOutcome]
             ELSE [pc |-> "sleep", result |-> NoResult]

\* the body of the while loop after the status query has answered at time t:
\* [next pc, result]
PollStep(s, raw, t) ==
    IF s \in TerminalStatuses
      THEN [pc |-> "done", result |-> RemoteOutcome(s, raw)]
      ELSE IF DeadlineExceeded(t)
             THEN [pc |-> "done", result |-> LocalTimeoutOutcome]
             ELSE [pc |-> "sleep", result |-> NoResult]

\* mutant: on the local timeout the execution is stopped with StopExecution
StatusReturnsStopsOnTimeout(lat, s, raw) ==
    /\ pc = "status"
    /\ now' = now + lat
    /\ remoteLog' = Append(remoteLog, [status |-> s, output |-> raw, at |-> now'])
    /\ LET step == PollStep(s, raw, now')
       IN /\ pc' = step.pc
          /\ result' = step.result
          /\ nSleep' = IF step.pc = "sleep" THEN nSleep + 1 ELSE nSleep
          /\ nStop' = IF step.result = LocalTimeoutOutcome THEN nStop + 1 ELSE nStop
    /\ UNCHANGED <<cloudVars, probeVars, matcherVars>>
    /\ UNCHANGED <<startTime, timeout, isExpress, nDescribeSM, nStartSync, nStart,
                   nStatus, issuedAt, failedCall>>

\* DescribeExecution answers: one iteration of the loop up to its return or sleep
StatusReturns(lat, s, raw) ==
    /\ pc = "status"
    /\ now' = now + lat
    /\ remoteLog' = Append(remoteLog, [status |-> s, output |-> raw, at |-> now'])
    /\ LET step == PollStep(s, raw, now')
       IN /\ pc' = step.pc
          /\ result' = step.result
          /\ nSleep' = IF step.pc = "sleep" THEN nSleep + 1 ELSE nSleep
    /\ UNCHANGED <<cloudVars, probeVars, matcherVars>>
    /\ UNCHANGED nStop
    /\ UNCHANGED <<startTime, timeout, isExpress, nDescribeSM, nStartSync, nStart,
                   nStatus, issuedAt, failedCall>>

\* DescribeExecution rejects: getExecutionStatus rethrows, the loop is left
StatusFails(lat) ==
    /\ pc = "status"
    /\ now' = now + lat
    /\ result' = Thrown
    /\ failedCall' = "status"
    /\ pc' = "done"
    /\ UNCHANGED <<cloudVars, probeVars, matcherVars>>
    /\ UNCHANGED nStop
    /\ UNCHANGED <<startTime, timeout, isExpress, nDescribeSM, nStartSync, nStart,
                   nStatus, nSleep, remoteLog, issuedAt>>

\* mutant: the timer fires after 1000 ms
SleepDoneEarly ==
    /\ pc = "sleep"
    /\ now' = now + 1000
    /\ nStatus' = nStatus + 1
    /\ issuedAt' = now'
    /\ pc' = "status"
    /\ UNCHANGED <<cloudVars, probeVars, matcherVars>>
    /\ UNCHANGED nStop
    /\ UNCHANGED <<startTime, timeout, isExpress, result, nDescribeSM, nStartSync,
                   nStart, nSleep, remoteLog, failedCall>>

\* the 5000 ms timer fires: the next iteration sends DescribeExecution
SleepDone ==
    /\ pc = "sleep"
    /\ now' = now + PollIntervalMs
    /\ nStatus' = nStatus + 1
    /\ issuedAt' = now'
    /\ pc' = "status"
    /\ UNCHANGED <<cloudVars, probeVars, matcherVars>>
    /\ UNCHANGED nStop
    /\ UNCHANGED <<startTime, timeout, isExpress, result, nDescribeSM, nStartSync,
                   nStart, nSleep, remoteLog, failedCall>>

ExecNext ==
    \/ \E t \in Timeouts : Execute(t)
    \/ \E lat \in Latencies : DescribeSMFails(lat)
    \/ \E lat \in Latencies, type \in StateMachineTypes : DescribeSMReturns(lat, type)
    \/ \E lat \in Latencies, s \in SyncStatuses : \E raw \in OutputsFor(s) :
          SyncReturns(lat, s, raw)
    \/ \E lat \in Latencies : SyncFails(lat)
    \/ \E lat \in Latencies : StartReturns(lat)
    \/ \E lat \in Latencies : StartFails(lat)
    \/ \E lat \in Latencies, s \in ExecutionStatuses : \E raw \in OutputsFor(s) :
          StatusReturns(lat, s, raw)
    \/ \E lat \in Latencies : StatusFails(lat)
    \/ SleepDone


-----------------------------------------------------------------------------
(* The toCompleteStepFunctionsExecution matcher *)

\* JSON values with the order of their members: an object is the sequence of
\* its keys with the sequence of their values, an array has values only
Obj(ks, vs) == [type |-> "object", keys |-> ks, values |-> vs]
Arr(vs) == [type |-> "array", keys |-> <<>>, values |-> vs]

\* the output strings the service sends to the matcher for a succeeded execution
MatcherWireOutputs == {"{\"a\":1,\"b\":2}", "{\"b\":2,\"a\":1}", "[1,2]", "[2,1]", "{}", ""}

\* JSON.parse on these strings: the members in the order of the text
ParseDoc(s) ==
    CASE s = "{\"a\":1,\"b\":2}" -> Obj(<<"a", "b">>, <<"1", "2">>)
      [] s = "{\"b\":2,\"a\":1}" -> Obj(<<"b", "a">>, <<"2", "1">>)
      [] s = "[1,2]" -> Arr(<<"1", "2">>)
      [] s = "[2,1]" -> Arr(<<"2", "1">>)
      [] s = "{}" -> Obj(<<>>, <<>>)

\* properties.result: not given, or one of these values
ExpectedResults ==
    {Absent} \cup { Present(ParseDoc(s)) : s \in MatcherWireOutputs \ {""} }

\* the output the service sends with status s
MatcherOutputsFor(s) ==
    IF s = "SUCCEEDED" THEN MatcherWireOutputs \cup {Undefined} ELSE {Undefined}

RECURSIVE StringifyMembers(_, _)
StringifyMembers(ks, vs) ==
    IF vs = <<>> THEN <<>>
    ELSE (IF ks = <<>> THEN <<Head(vs)>> ELSE <<"\"", Head(ks), "\"", ":", Head(vs)>>)
         \o (IF Len(vs) > 1 THEN <<",">> ELSE <<>>)
         \o StringifyMembers(IF ks = <<>> THEN <<>> ELSE Tail(ks), Tail(vs))

\* JSON.stringify: the members in their order, between braces or brackets
JSONStringify(d) ==
    IF d.type = "object"
      THEN <<"{">> \o StringifyMembers(d.keys, d.values) \o <<"}">>
      ELSE <<"[">> \o StringifyMembers(<<>>, d.values) \o <<"]">>

\* JSON.stringify(actualResult) === JSON.stringify(expectedResult)
PayloadMatches(actual, expected) == JSONStringify(actual) = JSONStringify(expected)

NoMatch == [kind |-> "none", pass |-> FALSE, actual |-> Absent]
MatcherThrew == [kind |-> "error", pass |-> FALSE, actual |-> Absent]
MatchResult(p, a) == [kind |-> "result", pass |-> p, actual |-> a]

\* the variables of stepFunctions.execute other than the clock and the two the
\* matcher has under the same names, startTime and timeout
executeOnlyVars == <<pc, isExpress, result, nDescribeSM, nStartSync, nStart, nStatus,
                     nSleep, remoteLog, issuedAt, failedCall, nStop>>

MatcherInit ==
    /\ mPc = "idle"
    /\ mExpected = Absent
    /\ mIsExpress = FALSE
    /\ mResult = NoMatch
    /\ mFault = "none"
    /\ mStatus = ""
    /\ nMStatus = 0
    /\ execStatus = ""

\* expect(arn).toCompleteStepFunctionsExecution({ timeout, result }): takes the
\* start time and sends DescribeStateMachine
MatcherCall(t, e) ==
    /\ mPc = "idle"
    /\ pc = "idle"
    /\ timeout' = t
    /\ startTime' = now
    /\ mExpected' = e
    /\ mPc' = "describeSM"
    /\ UNCHANGED <<cloudVars, probeVars, executeOnlyVars>>
    /\ UNCHANGED <<now, mIsExpress, mResult, mFault, mStatus, nMStatus, execStatus>>

\* DescribeStateMachine rejects: the matcher returns pass: false; execute throws
MatcherDescribeSMFails(lat) ==
    /\ mPc = "describeSM"
    /\ now' = now + lat
    /\ mFault' = "describeSM"
    /\ mResult' = MatchResult(FALSE, Absent)
    /\ execStatus' = "error"
    /\ mPc' = "done"
    /\ UNCHANGED <<cloudVars, probeVars, executeOnlyVars>>
    /\ UNCHANGED <<startTime, timeout, mExpected, mIsExpress, mStatus, nMStatus>>

\* DescribeStateMachine answers: the express branch sends StartSyncExecution,
\* the standard one StartExecution
MatcherDescribeSMReturns(lat, type) ==
    /\ mPc = "describeSM"
    /\ now' = now + lat
    /\ mIsExpress' = (type = "EXPRESS")
    /\ mPc' = IF mIsExpress' THEN "sync" ELSE "start"
    /\ UNCHANGED <<cloudVars, probeVars, executeOnlyVars>>
    /\ UNCHANGED <<startTime, timeout, mExpected, mResult, mFault, mStatus, nMStatus,
                   execStatus>>

\* a succeeded execution with output raw: the comparison with the expected
\* result, if one was given. The standard branch returns actual only then.
SucceededResult(raw, expected, express) ==
    LET actualResult == ParseDoc(OrEmptyObject(raw))
    IN IF expected # Absent
         THEN MatchResult(\A e \in expected : PayloadMatches(actualResult, e),
                          Present(actualResult))
         ELSE MatchResult(TRUE, IF express THEN Present(actualResult) ELSE Absent)

\* the express branch once StartSyncExecution has answered: only FAILED fails
SyncResult(s, raw, expected) ==
    IF s = "FAILED" THEN MatchResult(FALSE, Absent) ELSE SucceededResult(raw, expected, TRUE)

\* StartSyncExecution answers; execute returns the status of the answer
MatcherSyncReturns(lat, s, raw) ==
    /\ mPc = "sync"
    /\ now' = now + lat
    /\ mStatus' = s
    /\ mResult' = SyncResult(s, raw, mExpected)
    /\ execStatus' = RemoteOutcome(s, Undefined).status
    /\ mPc' = "done"
    /\ UNCHANGED <<cloudVars, probeVars, executeOnlyVars>>
    /\ UNCHANGED <<startTime, timeout, mExpected, mIsExpress, mFault, nMStatus>>

\* StartSyncExecution rejects: the matcher returns pass: false; execute throws
MatcherSyncFails(lat) ==
    /\ mPc = "sync"
    /\ now' = now + lat
    /\ mFault' = "sync"
    /\ mResult' = MatchResult(FALSE, Absent)
    /\ execStatus' = "error"
    /\ mPc' = "done"
    /\ UNCHANGED <<cloudVars, probeVars, executeOnlyVars>>
    /\ UNCHANGED <<startTime, timeout, mExpected, mIsExpress, mStatus, nMStatus>>

\* StartExecution answers: the loop is entered, the first DescribeExecution sent
MatcherStartReturns(lat) ==
    /\ mPc = "start"
    /\ now' = now + lat
    /\ nMStatus' = nMStatus + 1
    /\ mPc' = "status"
    /\ UNCHANGED <<cloudVars, probeVars, executeOnlyVars>>
    /\ UNCHANGED <<startTime, timeout, mExpected, mIsExpress, mResult, mFault, mStatus,
                   execStatus>>

\* StartExecution rejects: the matcher returns pass: false; execute throws
MatcherStartFails(lat) ==
    /\ mPc = "start"
    /\ now' = now + lat
    /\ mFault' = "start"
    /\ mResult' = MatchResult(FALSE, Absent)
    /\ execStatus' = "error"
    /\ mPc' = "done"
    /\ UNCHANGED <<cloudVars, probeVars, executeOnlyVars>>
    /\ UNCHANGED <<startTime, timeout, mExpected, mIsExpress, mStatus, nMStatus>>

\* the body of the polling loop after DescribeExecution has answered at time t:
\* [next pc, result]
MatcherPollStep(s, raw, expected, t) ==
    IF s = "SUCCEEDED"
      THEN [pc |-> "done", result |-> SucceededResult(raw, expected, FALSE)]
      ELSE IF s \in {"FAILED", "TIMED_OUT", "ABORTED"}
             THEN [pc |-> "done", result |-> MatchResult(FALSE, Absent)]
             ELSE IF DeadlineExceeded(t)
                    THEN [pc |-> "done", result |-> MatchResult(FALSE, Absent)]
                    ELSE [pc |-> "sleep", result |-> NoMatch]

\* DescribeExecution answers: one iteration of the matcher's loop, and of the
\* loop of execute on the same answer
MatcherStatusReturns(lat, s, raw) ==
    /\ mPc = "status"
    /\ now' = now + lat
    /\ mStatus' = s
    /\ LET step == MatcherPollStep(s, raw, mExpected, now')
           exec == PollStep(s, Undefined, now')
       IN /\ mPc' = step.pc
          /\ mResult' = step.result
          /\ execStatus' = exec.result.status
    /\ UNCHANGED <<cloudVars, probeVars, executeOnlyVars>>
    /\ UNCHANGED <<startTime, timeout, mExpected, mIsExpress, mFault, nMStatus>>

\* DescribeExecution rejects: the await is in no try block, the matcher throws;
\* so does execute
MatcherStatusFails(lat) ==
    /\ mPc = "status"
    /\ now' = now + lat
    /\ mFault' = "status"
    /\ mResult' = MatcherThrew
    /\ execStatus' = "error"
    /\ mPc' = "done"
    /\ UNCHANGED <<cloudVars, probeVars, executeOnlyVars>>
    /\ UNCHANGED <<startTime, timeout, mExpected, mIsExpress, mStatus, nMStatus>>

\* the 5000 ms timer fires: the next iteration sends DescribeExecution
MatcherSleepDone ==
    /\ mPc = "sleep"
    /\ now' = now + PollIntervalMs
    /\ nMStatus' = nMStatus + 1
    /\ mPc' = "status"
    /\ UNCHANGED <<cloudVars, probeVars, executeOnlyVars>>
    /\ UNCHANGED <<startTime, timeout, mExpected, mIsExpress, mResult, mFault, mStatus,
                   execStatus>>

MatcherNext ==
    \/ \E t \in Timeouts, e \in ExpectedResults : MatcherCall(t, e)
    \/ \E lat \in Latencies : MatcherDescribeSMFails(lat)
    \/ \E lat \in Latencies, type \in StateMachineTypes : MatcherDescribeSMReturns(lat, type)
    \/ \E lat \in Latencies, s \in SyncStatuses : \E raw \in MatcherOutputsFor(s) :
          MatcherSyncReturns(lat, s, raw)
    \/ \E lat \in Latencies : MatcherSyncFails(lat)
    \/ \E lat \in Latencies : MatcherStartReturns(lat)
    \/ \E lat \in Latencies : MatcherStartFails(lat)
    \/ \E lat \in Latencies, s \in ExecutionStatuses : \E raw \in MatcherOutputsFor(s) :
          MatcherStatusReturns(lat, s, raw)
    \/ \E lat \in Latencies : MatcherStatusFails(lat)
    \/ MatcherSleepDone

-----------------------------------------------------------------------------
(* cloudSpec(): names *)

Groups == 1..MaxGroups

\* characters \s matches
Whitespace == {" "}

\* suite names of the describe groups, as sequences of characters
GroupNames == { <<"a">>, <<"a", " ", "b">> }

\* describe('', ...) as well: a group whose name is the empty string
AllGroupNames == GroupNames \cup { <<>> }

\* os.userInfo().username
Username == <<"u">>

\* describe.name, the name property of the test runner's describe function
DescribeFnNames == { <<>>, <<"d">> }

\* const prefix = 'CloudSpec'
Prefix == <<"C", "l", "o", "u", "d", "S", "p", "e", "c">>

RECURSIVE DropWhitespace(_)
DropWhitespace(s) ==
    IF s # <<>> /\ Head(s) \in Whitespace THEN DropWhitespace(Tail(s)) ELSE s

\* testName.replace(/\s+/g, '-')
RECURSIVE ReplaceWhitespaceRuns(_)
ReplaceWhitespaceRuns(s) ==
    IF s = <<>> THEN <<>>
    ELSE IF Head(s) \in Whitespace
           THEN <<"-">> \o ReplaceWhitespaceRuns(DropWhitespace(Tail(s)))
           ELSE <<Head(s)>> \o ReplaceWhitespaceRuns(Tail(s))

\* `${prefix}-${...}-${username}`
StackNameOf(part) == Prefix \o <<"-">> \o part \o <<"-">> \o Username

InferStackName(testName, describeName) ==
    IF testName # <<>> THEN StackNameOf(ReplaceWhitespaceRuns(testName))
    ELSE IF describeName # <<>> THEN StackNameOf(ReplaceWhitespaceRuns(describeName))
    ELSE StackNameOf(<<"D", "e", "f", "a", "u", "l", "t", "T", "e", "s", "t">>)

StackNames == { InferStackName(n, d) : n \in AllGroupNames, d \in DescribeFnNames }

-----------------------------------------------------------------------------
(* cloudSpec(): outputs *)

OutputNames == {"a", "b"}
\* the value expressions a construction callback registers
OutputValues == {"1"}

EmptyOutputs == [k \in {} |-> <<>>]

\* a registered value is an expression of the stack that is not yet deployed
Unresolved == <<"$">>
Token(v) == <<Unresolved, v>>
\* the value it has once the stack named sn is deployed
Resolve(sn, v) == <<sn, v>>

\* the maps a callback can hand to setOutputs
OutputMaps == UNION { [ks -> {Token(v) : v \in OutputValues}] : ks \in SUBSET OutputNames }

\* the outputs declared by two successive maps
MergeOutputs(d, o) ==
    [k \in DOMAIN d \cup DOMAIN o |-> IF k \in DOMAIN o THEN o[k] ELSE d[k]]

\* what the control plane returns for the declared outputs of stack sn
ResolveAll(sn, d) == [k \in DOMAIN d |-> Resolve(sn, d[k][2])]

NoApp == [group |-> 0, n |-> 0]
NoDeploy == [app |-> NoApp, stackName |-> <<>>, declared |-> EmptyOutputs]

\* an outputs file: not written, or written with or without an entry for the stack
NoFile == [written |-> FALSE, hasEntry |-> FALSE, entry |-> EmptyOutputs]
FileFor(d) == [written |-> TRUE, hasEntry |-> d # EmptyOutputs, entry |-> d]

\* property access on the object handed to a test body
ReadOutput(o, key) ==
    [kind |-> "value", value |-> IF key \in DOMAIN o THEN Present(o[key]) ELSE Absent]

NoTest == [group |-> 0, given |-> EmptyOutputs, populated |-> FALSE,
           read |-> [key \in OutputNames |-> [kind |-> "none", value |-> Absent]]]

RECURSIVE SumOver(_, _)
SumOver(f, S) ==
    IF S = {} THEN 0 ELSE LET x == CHOOSE y \in S : TRUE IN f[x] + SumOver(f, S \ {x})

-----------------------------------------------------------------------------
(* cloudSpec(): setup, test *)

\* no import(outputsFile) has resolved yet
NoImport == [group |-> 0, file |-> NoFile, threw |-> FALSE, outputs |-> EmptyOutputs]

\* process.env.CLOUDSPEC_DESTROY_AFTER_TEST: not set, or one of these strings
Unset == "<unset>"
EnvValues == {Unset, "true", "TRUE", "1"}

CloudInit ==
    /\ app = NoApp
    /\ stackName = <<>>
    /\ outputs = EmptyOutputs
    /\ described = {}
    /\ groupName = [g \in Groups |-> <<>>]
    /\ setupPc = [g \in Groups |-> "idle"]
    /\ setupsRun = [g \in Groups |-> 0]
    /\ inflight = [g \in Groups |-> NoDeploy]
    /\ callback = 0
    /\ registerCalls = 0
    /\ remoteStacks = {}
    /\ outputsFiles = [sn \in StackNames |-> NoFile]
    /\ ownOutputs = [g \in Groups |-> Absent]
    /\ everSet = FALSE
    /\ testsRun = [g \in Groups |-> 0]
    /\ lastTest = NoTest
    /\ submits = [g \in Groups |-> 0]
    /\ imports = [g \in Groups |-> 0]
    /\ importCache = [sn \in StackNames |-> Absent]
    /\ lastImport = NoImport
    /\ deployedEver = {}
    /\ teardownPc = "pending"
    /\ destroyEnv = Unset
    /\ destroyRequests = <<>>
    /\ destroyFailed = FALSE

\* describe(name, ...): a group that uses the instance is collected, in file
\* order and before the runner starts any hook or test
Describe(g, name) ==
    /\ g = Cardinality(described) + 1
    /\ SumOver(setupsRun, Groups) = 0
    /\ SumOver(testsRun, Groups) = 0
    /\ teardownPc = "pending"
    /\ described' = described \cup {g}
    /\ groupName' = [groupName EXCEPT ![g] = name]
    /\ UNCHANGED <<execVars, matcherVars, probeVars, teardownVars>>
    /\ UNCHANGED <<app, stackName, outputs, setupPc, setupsRun, inflight, callback,
                   registerCalls, remoteStacks, outputsFiles, ownOutputs, everSet,
                   testsRun, lastTest, submits, imports, importCache, lastImport,
                   deployedEver>>

\* group g has begun a hook or a test body
Started(g) == setupsRun[g] > 0 \/ testsRun[g] > 0

\* The groups differ in nothing but their names, which Describe chooses freely,
\* so they are numbered in the order in which the runner starts them.
StartsInOrder(g) == \A h \in Groups : h < g => Started(h)

\* beforeAll hook of a setup call, up to the call of createResources: a new App,
\* the inferred stack name, a new Stack
SetupBegin(g, describeName) ==
    /\ g \in described
    /\ StartsInOrder(g)
    /\ teardownPc = "pending"
    /\ callback = 0
    /\ setupPc[g] = "idle"
    /\ SumOver(setupsRun, Groups) < MaxSetups
    /\ testsRun[g] = 0
    /\ app' = [group |-> g, n |-> setupsRun[g] + 1]
    /\ stackName' = InferStackName(groupName[g], describeName)
    /\ inflight' = [inflight EXCEPT ![g] =
                       [app |-> app', stackName |-> stackName', declared |-> EmptyOutputs]]
    /\ setupsRun' = [setupsRun EXCEPT ![g] = @ + 1]
    /\ setupPc' = [setupPc EXCEPT ![g] = "constructing"]
    /\ callback' = g
    /\ registerCalls' = 0
    /\ submits' = [submits EXCEPT ![g] = 0]
    /\ imports' = [imports EXCEPT ![g] = 0]
    /\ UNCHANGED <<execVars, matcherVars, probeVars, teardownVars>>
    /\ UNCHANGED <<outputs, described, groupName, remoteStacks, outputsFiles, ownOutputs,
                   everSet, testsRun, lastTest, importCache, lastImport, deployedEver>>

\* new CfnOutput(stack, key, ...) throws when the stack already has a child
\* named key
CfnOutputThrows(declared, o) == DOMAIN declared \cap DOMAIN o # {}

\* the setOutputs callback: (o) => { outputs = o; each entry becomes a CfnOutput }
RegisterOutputs(o) ==
    /\ callback # 0
    /\ registerCalls < MaxRegisterCalls
    /\ outputs' = o
    /\ everSet' = TRUE
    /\ LET g == callback
       IN IF CfnOutputThrows(inflight[g].declared, o)
            THEN \* the error leaves createResources and rejects the hook
                 /\ setupPc' = [setupPc EXCEPT ![g] = "registerThrew"]
                 /\ callback' = 0
                 /\ registerCalls' = 0
                 /\ inflight' = [inflight EXCEPT ![g] = NoDeploy]
            ELSE /\ inflight' = [inflight EXCEPT ![g].declared = MergeOutputs(@, o)]
                 /\ registerCalls' = registerCalls + 1
                 /\ UNCHANGED <<setupPc, callback>>
    /\ UNCHANGED <<execVars, matcherVars, probeVars, teardownVars>>
    /\ UNCHANGED <<app, stackName, described, groupName, setupsRun, remoteStacks, outputsFiles,
                   ownOutputs, testsRun, lastTest, submits, imports, importCache,
                   lastImport, deployedEver>>

\* createResources throws: the error leaves the hook before setupAndDeploy
CallbackThrows(g) ==
    /\ callback = g
    /\ callback' = 0
    /\ registerCalls' = 0
    /\ setupPc' = [setupPc EXCEPT ![g] = "callbackThrew"]
    /\ inflight' = [inflight EXCEPT ![g] = NoDeploy]
    /\ UNCHANGED <<execVars, matcherVars, probeVars, teardownVars>>
    /\ UNCHANGED <<app, stackName, outputs, described, groupName, setupsRun,
                   remoteStacks, outputsFiles, ownOutputs, everSet, submits,
                   testsRun, lastTest, imports, importCache, lastImport, deployedEver>>

\* createResources returns; setupAndDeploy(app, stackName) synthesizes the app
\* and submits it with cli.deploy
SetupSubmit(g) ==
    /\ callback = g
    /\ callback' = 0
    /\ registerCalls' = 0
    /\ setupPc' = [setupPc EXCEPT ![g] = "deploying"]
    /\ submits' = [submits EXCEPT ![g] = @ + 1]
    /\ UNCHANGED <<execVars, matcherVars, probeVars, teardownVars>>
    /\ UNCHANGED <<app, stackName, outputs, described, groupName, setupsRun, inflight,
                   remoteStacks, outputsFiles, ownOutputs, everSet,
                   testsRun, lastTest, imports, importCache, lastImport, deployedEver>>

\* cli.deploy resolves: the stack is live and the outputs file is written, with
\* an entry under the stack name when the stack has outputs; deployStack returns
\* the path and getStackOutputs imports it
DeploySucceeds(g) ==
    /\ callback = 0
    /\ setupPc[g] = "deploying"
    /\ LET sn == inflight[g].stackName
           resolved == ResolveAll(sn, inflight[g].declared)
       IN /\ remoteStacks' = remoteStacks \cup {sn}
          /\ deployedEver' = deployedEver \cup {sn}
          /\ outputsFiles' = [outputsFiles EXCEPT ![sn] = FileFor(resolved)]
    /\ imports' = [imports EXCEPT ![g] = @ + 1]
    /\ setupPc' = [setupPc EXCEPT ![g] = "importing"]
    /\ UNCHANGED <<execVars, matcherVars, probeVars, teardownVars>>
    /\ UNCHANGED <<app, stackName, outputs, described, groupName, setupsRun, inflight, callback,
                   registerCalls, ownOutputs, everSet, testsRun, lastTest, submits,
                   importCache, lastImport>>

\* mutant: a rejected cli.deploy is submitted once more before the hook rejects
DeployFailsRetriesOnce(g) ==
    /\ callback = 0
    /\ setupPc[g] = "deploying"
    /\ IF submits[g] < 2
         THEN /\ submits' = [submits EXCEPT ![g] = @ + 1]
              /\ UNCHANGED <<setupPc, inflight>>
         ELSE /\ setupPc' = [setupPc EXCEPT ![g] = "deployFailed"]
              /\ inflight' = [inflight EXCEPT ![g] = NoDeploy]
              /\ UNCHANGED submits
    /\ UNCHANGED <<execVars, matcherVars, probeVars, teardownVars>>
    /\ UNCHANGED <<app, stackName, outputs, described, groupName, setupsRun, callback,
                   registerCalls, remoteStacks, outputsFiles, ownOutputs, everSet,
                   testsRun, lastTest, imports, importCache, lastImport,
                   deployedEver>>

\* cli.deploy rejects: deployStack logs and rethrows, setupAndDeploy and the
\* hook reject
DeployFails(g) ==
    /\ callback = 0
    /\ setupPc[g] = "deploying"
    /\ setupPc' = [setupPc EXCEPT ![g] = "deployFailed"]
    /\ inflight' = [inflight EXCEPT ![g] = NoDeploy]
    /\ UNCHANGED <<execVars, matcherVars, probeVars, teardownVars>>
    /\ UNCHANGED <<app, stackName, outputs, described, groupName, setupsRun, callback,
                   registerCalls, remoteStacks, outputsFiles, ownOutputs, everSet,
                   testsRun, lastTest, submits, imports, importCache, lastImport,
                   deployedEver>>

\* await import(outputsFile): a path that was imported before gives the module
\* loaded then, another one is loaded from the file
ImportModule(cached, file) == IF cached = Absent THEN file ELSE CHOOSE m \in cached : TRUE

\* getStackOutputs: the imported module has an entry for the stack, or it throws
GetStackOutputs(module) ==
    IF ~module.hasEntry
      THEN [threw |-> TRUE, outputs |-> EmptyOutputs]
      ELSE [threw |-> FALSE, outputs |-> module.entry]

\* the import of the outputs file resolves: outputs = await setupAndDeploy(...)
ImportOutputs(g) ==
    /\ callback = 0
    /\ setupPc[g] = "importing"
    /\ LET sn == inflight[g].stackName
           module == ImportModule(importCache[sn], outputsFiles[sn])
           got == GetStackOutputs(module)
       IN /\ importCache' = [importCache EXCEPT ![sn] = Present(module)]
          /\ lastImport' = [group |-> g, file |-> outputsFiles[sn],
                            threw |-> got.threw, outputs |-> got.outputs]
          /\ IF got.threw
               THEN /\ setupPc' = [setupPc EXCEPT ![g] = "outputsNotFound"]
                    /\ UNCHANGED <<outputs, ownOutputs, everSet>>
               ELSE /\ outputs' = got.outputs
                    /\ everSet' = TRUE
                    /\ ownOutputs' = [ownOutputs EXCEPT ![g] = Present(got.outputs)]
                    /\ setupPc' = [setupPc EXCEPT ![g] = "idle"]
    /\ inflight' = [inflight EXCEPT ![g] = NoDeploy]
    /\ UNCHANGED <<execVars, matcherVars, probeVars, teardownVars>>
    /\ UNCHANGED <<app, stackName, described, groupName, setupsRun, callback,
                   registerCalls, remoteStacks, outputsFiles, testsRun, lastTest,
                   submits, imports, deployedEver>>

\* test(name, () => testFn(outputs)): the runner invokes a test body of group g,
\* after the group's beforeAll hooks; read is what the body gets for each name
RunTest(g) ==
    /\ g \in described
    /\ StartsInOrder(g)
    /\ teardownPc = "pending"
    /\ callback = 0
    /\ setupPc[g] = "idle"
    /\ SumOver(testsRun, Groups) < MaxTests
    /\ testsRun' = [testsRun EXCEPT ![g] = @ + 1]
    /\ lastTest' = [group |-> g, given |-> outputs, populated |-> everSet,
                    read |-> [key \in OutputNames |-> ReadOutput(outputs, key)]]
    /\ UNCHANGED <<execVars, matcherVars, probeVars, teardownVars>>
    /\ UNCHANGED <<app, stackName, outputs, described, groupName, setupPc, setupsRun, inflight,
                   callback, registerCalls, remoteStacks, outputsFiles, ownOutputs,
                   everSet, submits, imports, importCache, lastImport, deployedEver>>

-----------------------------------------------------------------------------
(* cloudSpec(): afterAll *)

\* a beforeAll hook that is not running: not started, resolved or rejected
SettledPcs == {"idle", "registerThrew", "callbackThrew", "deployFailed", "outputsNotFound"}

\* mutant: any value that is set enables the destruction
DestroyEnabledWhenSet(env) == env # Unset

\* process.env.CLOUDSPEC_DESTROY_AFTER_TEST === 'true'
DestroyEnabled(env) == env = "true"

\* the afterAll hook of the instance, run once when the tests of the file are
\* over: if enabled, destroyStack(app, stackName) with the variables as the
\* latest setup left them. app.synth() on an app that was never assigned throws
\* before cli.destroy is called.
AfterAll(env) ==
    /\ teardownPc = "pending"
    /\ callback = 0
    /\ \A g \in Groups : setupPc[g] \in SettledPcs
    /\ destroyEnv' = env
    /\ IF ~DestroyEnabled(env)
         THEN /\ teardownPc' = "done"
              /\ UNCHANGED destroyRequests
         ELSE IF app = NoApp
                THEN /\ teardownPc' = "rejected"
                     /\ UNCHANGED destroyRequests
                ELSE /\ teardownPc' = "destroying"
                     /\ destroyRequests' = Append(destroyRequests, stackName)
    /\ UNCHANGED <<execVars, matcherVars, probeVars, setupVars>>
    /\ UNCHANGED destroyFailed

\* cli.destroy resolves: the stack is gone, destroyStack and the hook resolve
DestroySucceeds ==
    /\ teardownPc = "destroying"
    /\ remoteStacks' = remoteStacks \ {destroyRequests[Len(destroyRequests)]}
    /\ teardownPc' = "done"
    /\ UNCHANGED <<execVars, matcherVars, probeVars>>
    /\ UNCHANGED <<app, stackName, outputs, described, groupName, setupPc, setupsRun, inflight,
                   callback, registerCalls, outputsFiles, ownOutputs, everSet, testsRun,
                   lastTest, submits, imports, importCache, lastImport, deployedEver>>
    /\ UNCHANGED <<destroyEnv, destroyRequests, destroyFailed>>

\* cli.destroy rejects: destroyStack logs and rethrows, the hook rejects
DestroyFails ==
    /\ teardownPc = "destroying"
    /\ destroyFailed' = TRUE
    /\ teardownPc' = "rejected"
    /\ UNCHANGED <<execVars, matcherVars, probeVars, setupVars>>
    /\ UNCHANGED <<destroyEnv, destroyRequests>>

CloudNext ==
    \/ \E g \in Groups, name \in GroupNames : Describe(g, name)
    \/ \E g \in Groups, d \in DescribeFnNames : SetupBegin(g, d)
    \/ \E o \in OutputMaps : RegisterOutputs(o)
    \/ \E g \in Groups : SetupSubmit(g)
    \/ \E g \in Groups : DeploySucceeds(g)
    \/ \E g \in Groups : DeployFails(g)
    \/ \E g \in Groups : ImportOutputs(g)
    \/ \E g \in Groups : RunTest(g)

\* the hooks of a run, the afterAll hook included; test bodies, which only read
\* the outputs, are left to CloudNext
TeardownNext ==
    \/ \E g \in Groups, name \in GroupNames : Describe(g, name)
    \/ \E g \in Groups, d \in DescribeFnNames : SetupBegin(g, d)
    \/ \E o \in OutputMaps : RegisterOutputs(o)
    \/ \E g \in Groups : SetupSubmit(g)
    \/ \E g \in Groups : DeploySucceeds(g)
    \/ \E g \in Groups : DeployFails(g)
    \/ \E g \in Groups : ImportOutputs(g)
    \/ \E env \in EnvValues : AfterAll(env)
    \/ DestroySucceeds
    \/ DestroyFails

\* the beforeAll hooks alone, for groups of any name, the empty one included,
\* and callbacks that may throw
BuildNext ==
    \/ \E g \in Groups, name \in AllGroupNames : Describe(g, name)
    \/ \E g \in Groups, d \in DescribeFnNames : SetupBegin(g, d)
    \/ \E o \in OutputMaps : RegisterOutputs(o)
    \/ \E g \in Groups : CallbackThrows(g)
    \/ \E g \in Groups : SetupSubmit(g)
    \/ \E g \in Groups : DeploySucceeds(g)
    \/ \E g \in Groups : DeployFails(g)
    \/ \E g \in Groups : ImportOutputs(g)

-----------------------------------------------------------------------------
(* Name derivation: inferStackName and createTestApp *)

\* the characters group names are made of here: a letter, a blank, a hyphen
\* and a character that is none of these
NameChars == {"a", " ", "-", "_"}

\* [a-zA-Z0-9]
AlphaNumerics ==
    {"a", "b", "c", "d", "e", "f", "g", "h", "i", "j", "k", "l", "m",
     "n", "o", "p", "q", "r", "s", "t", "u", "v", "w", "x", "y", "z",
     "A", "B", "C", "D", "E", "F", "G", "H", "I", "J", "K", "L", "M",
     "N", "O", "P", "Q", "R", "S", "T", "U", "V", "W", "X", "Y", "Z",
     "0", "1", "2", "3", "4", "5", "6", "7", "8", "9"}

\* the names handed to inferStackName and createTestApp
TestNames == UNION { [1..n -> NameChars] : n \in 0..MaxNameLen }

\* name.replace(/[^a-zA-Z0-9]/g, '-')
RECURSIVE ReplaceNonAlphaNumerics(_)
ReplaceNonAlphaNumerics(s) ==
    IF s = <<>> THEN <<>>
    ELSE <<IF Head(s) \in AlphaNumerics THEN Head(s) ELSE "-">>
            \o ReplaceNonAlphaNumerics(Tail(s))

NameInit ==
    /\ inferCalls = <<>>
    /\ testApps = <<>>

\* stackName = inferStackName(name), for the first and for the second of two
\* groups
InferCall(testName, describeName) ==
    /\ testApps = <<>>
    /\ Len(inferCalls) < 2
    /\ inferCalls' = Append(inferCalls,
                            [testName |-> testName, describeName |-> describeName,
                             stackName |-> InferStackName(testName, describeName)])
    /\ UNCHANGED <<execVars, matcherVars, cloudVars, graphVars, s3Vars>>
    /\ UNCHANGED testApps

\* createTestApp({ name }): the stack name of the test app
CreateTestApp(name) ==
    /\ inferCalls = <<>>
    /\ testApps = <<>>
    /\ testApps' = <<[name |-> name, stackName |-> ReplaceNonAlphaNumerics(name)]>>
    /\ UNCHANGED <<execVars, matcherVars, cloudVars, graphVars, s3Vars>>
    /\ UNCHANGED inferCalls

NameNext ==
    \/ \E n \in TestNames, d \in DescribeFnNames : InferCall(n, d)
    \/ \E n \in TestNames : CreateTestApp(n)

-----------------------------------------------------------------------------
(* EphemeralResourcesAspect *)

\* CfnDeletionPolicy, and a policy that is not set
DeletionPolicies == {Undefined, "Delete", "Retain", "RetainExceptOnCreate", "Snapshot"}
UpdateReplacePolicies == {Undefined, "Delete", "Retain", "Snapshot"}

\* The constructs a callback adds to the stack: a CfnResource (CfnBucket: the
\* one of type AWS::S3::Bucket) with its cfnOptions, or a Bucket, described by
\* the cfnOptions of its CfnBucket child and by whether auto delete objects is
\* enabled, which the Bucket constructor allows with removal policy DESTROY only.
Nodes ==
    [kind : {"CfnResource", "CfnBucket"}, deletionPolicy : DeletionPolicies,
     updateReplacePolicy : UpdateReplacePolicies, autoDeleteObjects : {FALSE}]
    \cup
    [kind : {"Bucket"}, deletionPolicy : DeletionPolicies,
     updateReplacePolicy : UpdateReplacePolicies, autoDeleteObjects : {FALSE}]
    \cup
    [kind : {"Bucket"}, deletionPolicy : {"Delete"},
     updateReplacePolicy : {"Delete"}, autoDeleteObjects : {TRUE}]

\* node instanceof CfnResource: the two if statements on node.cfnOptions
VisitCfnResource(n) ==
    [n EXCEPT !.deletionPolicy = IF @ = "Retain" THEN "Delete" ELSE @,
              !.updateReplacePolicy = IF @ = "Retain" THEN "Delete" ELSE @]

\* mutant: the bucket is given RemovalPolicy.RETAIN
VisitBucketRetains(n) ==
    [n EXCEPT !.deletionPolicy = "Retain",
              !.updateReplacePolicy = "Retain",
              !.autoDeleteObjects = TRUE]

\* node instanceof Bucket: applyRemovalPolicy(RemovalPolicy.DESTROY) sets both
\* policies of the CfnBucket child, enableAutoDeleteObjects() adds the custom
\* resource that empties the bucket
VisitBucket(n) ==
    [n EXCEPT !.deletionPolicy = "Delete",
              !.updateReplacePolicy = "Delete",
              !.autoDeleteObjects = TRUE]

\* enableAutoDeleteObjects() on a bucket that has the custom resource already:
\* a second construct of the same name, which throws
VisitThrows(n) == n.kind = "Bucket" /\ n.autoDeleteObjects

\* visit(node), for a Bucket followed by the visit of its CfnBucket child
Visit(n) ==
    IF n.kind = "Bucket" THEN VisitCfnResource(VisitBucket(n)) ELSE VisitCfnResource(n)

\* visit(node), for a Bucket whose CfnBucket child is visited before it
VisitChildFirst(n) ==
    IF n.kind = "Bucket" THEN VisitBucket(VisitCfnResource(n)) ELSE VisitCfnResource(n)

\* the orders in which n sibling nodes can be visited
VisitOrders(n) ==
    {order \in [1..n -> 1..n] : \A i, j \in 1..n : i # j => order[i] # order[j]}

\* the order of construction
ConstructionOrder(n) == [i \in 1..n |-> i]

\* the visits from the k-th node of order on, up to the first visit that throws
RECURSIVE VisitFrom(_, _, _, _)
VisitFrom(g, order, k, childFirst) ==
    IF k > Len(order)
      THEN [graph |-> g, threw |-> FALSE]
      ELSE LET i == order[k]
           IN IF VisitThrows(g[i])
                THEN [graph |-> g, threw |-> TRUE]
                ELSE VisitFrom([g EXCEPT ![i] = IF childFirst THEN VisitChildFirst(@)
                                                              ELSE Visit(@)],
                               order, k + 1, childFirst)

NoTraversal == [order |-> "none", childFirst |-> FALSE]

GraphInit ==
    /\ graph = <<>>
    /\ synthPc = "constructing"
    /\ constructed = <<>>
    /\ traversal = NoTraversal

\* createResources adds a construct to the stack
AddNode(n) ==
    /\ synthPc = "constructing"
    /\ Len(graph) < MaxNodes
    /\ graph' = Append(graph, n)
    /\ UNCHANGED <<execVars, matcherVars, cloudVars, nameVars, s3Vars>>
    /\ UNCHANGED <<synthPc, constructed, traversal>>

\* the aspect is invoked on every node of the stack in the given order; when no
\* visit throws the assembly is submitted with cli.deploy
Traverse(order, childFirst) ==
    /\ synthPc = "constructing"
    /\ constructed' = graph
    /\ traversal' = [order |-> IF order = ConstructionOrder(Len(graph))
                                 THEN "construction" ELSE "other",
                     childFirst |-> childFirst]
    /\ LET end == VisitFrom(graph, order, 1, childFirst)
       IN /\ graph' = end.graph
          /\ synthPc' = IF end.threw THEN "synthThrew" ELSE "submitted"
    /\ UNCHANGED <<execVars, matcherVars, cloudVars, nameVars, s3Vars>>

\* deployStack: app.synth() invokes the aspect on the nodes in the order of
\* their construction, a Bucket before its CfnBucket child
Synth == Traverse(ConstructionOrder(Len(graph)), FALSE)

\* the same stack with its constructs visited in another order
SynthInOtherOrder(order, childFirst) ==
    /\ order # ConstructionOrder(Len(graph)) \/ childFirst
    /\ Traverse(order, childFirst)

GraphNext ==
    \/ \E n \in Nodes : AddNode(n)
    \/ Synth
    \/ \E order \in VisitOrders(Len(graph)), childFirst \in BOOLEAN :
          SynthInOtherOrder(order, childFirst)

-----------------------------------------------------------------------------
(* s3 and the toHaveKey matcher, against an object store *)

Keys == {"k1", "k2"}

\* what the store answers besides with a result
StoreFaults == {"AccessDenied", "NetworkError"}
NoFault == "none"

\* a code unit that is a surrogate without its pair
LoneSurrogate == "\\uD800"
\* U+FFFD
ReplacementChar == "\\uFFFD"

\* bodies: strings as sequences of code units, buffers as sequences of bytes
StringChars == {"h", LoneSurrogate}
BufferBytes == {104, 255}
Bodies ==
    [type : {"string"}, data : UNION { [1..n -> StringChars] : n \in 0..MaxBodyLen }]
    \cup
    [type : {"buffer"}, data : UNION { [1..n -> BufferBytes] : n \in 0..MaxBodyLen }]

\* the UTF-8 encoding of a string: a lone surrogate is encoded as U+FFFD
RECURSIVE Utf8Encode(_)
Utf8Encode(s) ==
    IF s = <<>> THEN <<>>
    ELSE (IF Head(s) = "h" THEN <<104>> ELSE <<239, 191, 189>>) \o Utf8Encode(Tail(s))

\* transformToString(): the UTF-8 decoding of the bytes, U+FFFD for each byte
\* that is not part of a well-formed sequence
RECURSIVE Utf8Decode(_)
Utf8Decode(b) ==
    IF b = <<>> THEN <<>>
    ELSE IF Head(b) = 104 THEN <<"h">> \o Utf8Decode(Tail(b))
    ELSE IF Len(b) >= 3 /\ SubSeq(b, 1, 3) = <<239, 191, 189>>
           THEN <<ReplacementChar>> \o Utf8Decode(SubSeq(b, 4, Len(b)))
           ELSE <<ReplacementChar>> \o Utf8Decode(Tail(b))

\* the bytes Upload sends for a body
BytesOf(body) == IF body.type = "string" THEN Utf8Encode(body.data) ELSE body.data

StringValue(s) == [type |-> "string", data |-> s]

\* HeadObject / GetObject on the store: the fault, not found, or the object
Answer(st, key, fault) ==
    IF fault # NoFault THEN fault
    ELSE IF st[key] = Absent THEN "NotFound" ELSE "ok"

NoOp == [op |-> "none", key |-> "", fault |-> NoFault, answer |-> "", threw |-> FALSE,
         ok |-> FALSE, content |-> Absent, changedStore |-> FALSE]

S3Init ==
    /\ store = [k \in Keys |-> Absent]
    /\ putBody = [k \in Keys |-> Absent]
    /\ lastOp = NoOp

\* s3.createObject: true when upload.done() resolves, false when it rejects
CreateObject(key, body, fault) ==
    /\ IF fault = NoFault
         THEN /\ store' = [store EXCEPT ![key] = Present(BytesOf(body))]
              /\ putBody' = [putBody EXCEPT ![key] = Present(body)]
         ELSE UNCHANGED <<store, putBody>>
    /\ lastOp' = [NoOp EXCEPT !.op = "createObject", !.key = key, !.fault = fault,
                              !.answer = IF fault = NoFault THEN "ok" ELSE fault,
                              !.ok = (fault = NoFault),
                              !.changedStore = (store' # store)]
    /\ UNCHANGED <<execVars, matcherVars, cloudVars, nameVars, graphVars>>

\* try { await s3Client.send(headCommand); return true } catch { return false }
ExistsResult(answer) == answer = "ok"

\* s3.objectExists
ObjectExists(key, fault) ==
    /\ store' = store
    /\ lastOp' = [NoOp EXCEPT !.op = "objectExists", !.key = key, !.fault = fault,
                              !.answer = Answer(store, key, fault),
                              !.ok = ExistsResult(Answer(store, key, fault)),
                              !.changedStore = (store' # store)]
    /\ UNCHANGED <<execVars, matcherVars, cloudVars, nameVars, graphVars>>
    /\ UNCHANGED putBody

\* the toHaveKey matcher: pass is true when HeadObject resolves, false when it
\* rejects
ToHaveKey(key, fault) ==
    /\ store' = store
    /\ lastOp' = [NoOp EXCEPT !.op = "toHaveKey", !.key = key, !.fault = fault,
                              !.answer = Answer(store, key, fault),
                              !.ok = ExistsResult(Answer(store, key, fault)),
                              !.changedStore = (store' # store)]
    /\ UNCHANGED <<execVars, matcherVars, cloudVars, nameVars, graphVars>>
    /\ UNCHANGED putBody

\* mutant: a failed retrieval gives the empty string
ContentOfOrEmpty(answer, stored) ==
    IF answer = "ok"
      THEN {StringValue(Utf8Decode(b)) : b \in stored}
      ELSE Present(StringValue(<<>>))

\* response.Body?.transformToString(), undefined when GetObject rejects
ContentOf(answer, stored) ==
    IF answer = "ok" THEN {StringValue(Utf8Decode(b)) : b \in stored} ELSE Absent

\* s3.getObjectContent
GetObjectContent(key, fault) ==
    /\ store' = store
    /\ lastOp' = [NoOp EXCEPT !.op = "getObjectContent", !.key = key, !.fault = fault,
                              !.answer = Answer(store, key, fault),
                              !.content = ContentOf(Answer(store, key, fault), store[key]),
                              !.changedStore = (store' # store)]
    /\ UNCHANGED <<execVars, matcherVars, cloudVars, nameVars, graphVars>>
    /\ UNCHANGED putBody

AnyFault == StoreFaults \cup {NoFault}

S3Next ==
    \/ \E k \in Keys, b \in Bodies, f \in AnyFault : CreateObject(k, b, f)
    \/ \E k \in Keys, f \in AnyFault : ObjectExists(k, f)
    \/ \E k \in Keys, f \in AnyFault : ToHaveKey(k, f)
    \/ \E k \in Keys, f \in AnyFault : GetObjectContent(k, f)

-----------------------------------------------------------------------------
(* Specifications *)

Init == ExecInit /\ MatcherInit /\ CloudInit /\ NameInit /\ GraphInit /\ S3Init

SpecExec == Init /\ [][ExecNext]_vars

\* every remote call resolves or rejects and every timer fires
SpecExecLive == Init /\ [][ExecNext]_vars /\ WF_vars(ExecNext)

SpecMatcher == Init /\ [][MatcherNext]_vars

SpecCloud == Init /\ [][CloudNext]_vars

SpecTeardown == Init /\ [][TeardownNext]_vars

SpecBuild == Init /\ [][BuildNext]_vars

SpecName == Init /\ [][NameNext]_vars

SpecGraph == Init /\ [][GraphNext]_vars

SpecS3 == Init /\ [][S3Next]_vars

-----------------------------------------------------------------------------
(* Properties of stepFunctions.execute *)

\* the call has returned an outcome / on the standard path / on the express path
Returned == pc = "done" /\ result.kind = "outcome"
Durable == nStart = 1
Fast == nStartSync = 1

LastResponse == remoteLog[Len(remoteLog)]
AllNonTerminal(n) == \A i \in 1..n : remoteLog[i].status \notin TerminalStatuses

\* C1: on the standard path the status just observed is examined before the
\* deadline: a terminal status is returned as it is, also when the timeout has
\* already elapsed, and the local TIMED_OUT (the one without output) is only
\* returned after a non-terminal status.
C1_StatusBeforeDeadline ==
    (Durable /\ Returned) =>
        /\ Len(remoteLog) = nStatus
        /\ LastResponse.status \in TerminalStatuses =>
              /\ result.status = LastResponse.status
              /\ result # LocalTimeoutOutcome
        /\ result = LocalTimeoutOutcome => LastResponse.status \notin TerminalStatuses

\* C1 witness: a terminal status arrived after the deadline and was returned
C1_Witness ==
    /\ Durable /\ Returned
    /\ LastResponse.status = "SUCCEEDED"
    /\ now - startTime > timeout
    /\ result.status = "SUCCEEDED"

\* C2 as stated: with non-terminal statuses only, the call returns TIMED_OUT,
\* not while elapsed <= timeout, and no later than one poll interval plus the
\* latency of the last query after the deadline.
C2_WithinOnePollOfDeadline ==
    (Durable /\ Returned /\ AllNonTerminal(Len(remoteLog))) =>
        /\ result = LocalTimeoutOutcome
        /\ now - startTime > timeout
        /\ now <= startTime + timeout + PollIntervalMs + (now - issuedAt)

\* C2 amended: with non-terminal statuses only, the call returns the local
\* TIMED_OUT, not while elapsed <= timeout, at the first status answer that
\* arrives after the deadline; from the second status query on, that is no later
\* than one poll interval plus the latency of that query after the deadline.
C2_FirstAnswerAfterDeadline ==
    (Durable /\ Returned /\ AllNonTerminal(Len(remoteLog))) =>
        /\ result = LocalTimeoutOutcome
        /\ now - startTime > timeout
        /\ \A i \in 1..(Len(remoteLog) - 1) : remoteLog[i].at - startTime <= timeout
        /\ nStatus > 1 =>
              now <= startTime + timeout + PollIntervalMs + (now - issuedAt)

\* C2 witness: a local TIMED_OUT at the second query, the first one having been
\* checked at exactly elapsed = timeout
C2_Witness ==
    /\ Durable /\ Returned
    /\ result = LocalTimeoutOutcome
    /\ nStatus = 2
    /\ remoteLog[1].at - startTime = timeout

\* C3: when the k-th status answer is the first terminal one and the deadline
\* was not exceeded at the answers before it, the call has returned after
\* exactly k status queries with that status and the parsed output.
C3_ReturnsAtFirstTerminal ==
    \A k \in 1..Len(remoteLog) :
        ( /\ Durable
          /\ remoteLog[k].status \in TerminalStatuses
          /\ AllNonTerminal(k - 1)
          /\ \A j \in 1..(k - 1) : remoteLog[j].at - startTime <= timeout )
        => /\ Len(remoteLog) = k
           /\ nStatus = k
           /\ Returned
           /\ result.status = remoteLog[k].status
           /\ (remoteLog[k].status = "SUCCEEDED" /\ remoteLog[k].output \notin {Undefined, ""})
                 => result.output = Present(JSONParse(remoteLog[k].output))

\* C3 witness: [RUNNING, RUNNING, SUCCEEDED] with {"hello":"world"}
C3_Witness ==
    /\ Durable /\ Returned
    /\ Len(remoteLog) = 3
    /\ remoteLog[1].status = "RUNNING"
    /\ remoteLog[2].status = "RUNNING"
    /\ remoteLog[3].status = "SUCCEEDED"
    /\ result = Outcome("SUCCEEDED", Present([hello |-> "world"]))

\* C4: an outcome carries an output exactly when its status is SUCCEEDED.
C4_OutputIffSucceeded ==
    Returned => (result.output # Absent <=> result.status = "SUCCEEDED")

\* C5: when the mode query rejects, the call has thrown after one mode query,
\* and no start, synchronous start or status query was sent.
C5_ModeQueryErrorIsFinal ==
    failedCall = "describeSM" =>
        /\ pc = "done"
        /\ result.kind = "error"
        /\ nDescribeSM = 1
        /\ nStart = 0 /\ nStartSync = 0 /\ nStatus = 0 /\ nSleep = 0

\* C5 witness: the mode query rejected
C5_Witness == failedCall = "describeSM" /\ pc = "done" /\ nDescribeSM = 1

\* C6: on the express path, once the single synchronous call has answered, the
\* outcome has the status of the answer and its output parsed, FAILED included;
\* nothing is thrown, no status query or sleep is made and no local timeout is
\* applied.
C6_ExpressMapsStatus ==
    (isExpress /\ Len(remoteLog) > 0) =>
        /\ Returned
        /\ nStartSync = 1 /\ nStart = 0 /\ nStatus = 0 /\ nSleep = 0
        /\ Len(remoteLog) = 1
        /\ result.status = remoteLog[1].status
        /\ result.output = Present(JSONParse(OrEmptyObject(remoteLog[1].output)))
        /\ result # LocalTimeoutOutcome

\* C6 witness: FAILED from the synchronous call, after the timeout has elapsed
C6_Witness ==
    /\ isExpress /\ Returned
    /\ remoteLog[1].status = "FAILED"
    /\ result.status = "FAILED"
    /\ now - startTime > timeout

-----------------------------------------------------------------------------
(* Properties of cloudSpec() *)

\* C7: a test body that reads an output before outputs was ever assigned gets
\* an error (OutputNotReadyError), not an empty or undefined value.
C7_ReadBeforeSetFails ==
    (lastTest.group # 0 /\ ~lastTest.populated) =>
        \A key \in OutputNames : lastTest.read[key].kind = "error"

\* C8: a second population of the outputs in a group (a second setOutputs call
\* in the construction callback, also one that repeats an output name, or a
\* second setup call) is not an error; the assignment outputs = o is the
\* overwrite.
C8_SecondPopulationIsNoError ==
    \A g \in Groups : setupPc[g] # "registerThrew"

\* C9: for a group whose setup has begun, the outputs handed to test bodies are
\* empty until the group's deployment has succeeded and are the deployed map
\* from then on.
C9_EmptyUntilDeployed ==
    \A g \in Groups :
        setupsRun[g] > 0 =>
            IF ownOutputs[g] = Absent
              THEN outputs = EmptyOutputs
              ELSE outputs \in ownOutputs[g]

\* C10: a test body of a group whose deployment succeeded is invoked with the
\* outputs of that group's own deployment.
C10_TestGetsOwnOutputs ==
    (lastTest.group # 0 /\ ownOutputs[lastTest.group] # Absent) =>
        lastTest.given \in ownOutputs[lastTest.group]

\* the afterAll hook is over
TornDown == teardownPc \in {"done", "rejected"}

\* the stack names cli.destroy was called for
Requested == {destroyRequests[i] : i \in 1..Len(destroyRequests)}

\* C11: when the destruction is enabled, at the end of the run cli.destroy has
\* been called for the name of every stack that a setup deployed during the run.
C11_EveryDeployedStackDestroyRequested ==
    (TornDown /\ destroyEnv = "true") => deployedEver \subseteq Requested

\* C12: cli.destroy is called only when CLOUDSPEC_DESTROY_AFTER_TEST is the
\* string 'true'; with the variable unset or of another value the hook resolves
\* without a request and every stack deployed during the run is still live.
C12_DestroyOnlyWhenEnabled ==
    /\ destroyRequests # <<>> => destroyEnv = "true"
    /\ (teardownPc # "pending" /\ destroyEnv # "true") =>
          /\ teardownPc = "done"
          /\ destroyRequests = <<>>
          /\ ~destroyFailed
          /\ remoteStacks = deployedEver

\* C12 witness: the hook ran with the value 'TRUE' and left a deployed stack live
C12_Witness ==
    /\ teardownPc = "done"
    /\ destroyEnv = "TRUE"
    /\ remoteStacks # {}
    /\ destroyRequests = <<>>

\* C13: when cli.destroy rejects, the afterAll hook has resolved all the same,
\* after one destroy request.
C13_DestroyFailureSwallowed ==
    destroyFailed => (teardownPc = "done" /\ Len(destroyRequests) = 1)

\* C14: when cli.deploy rejects, the beforeAll hook has rejected after exactly
\* one cli.deploy call of this hook and without importing the outputs file, and
\* nothing was assigned to the group's outputs by this deployment.
C14_DeployFailureIsFinal ==
    \A g \in Groups :
        setupPc[g] = "deployFailed" =>
            /\ submits[g] = 1
            /\ imports[g] = 0
            /\ inflight[g] = NoDeploy
            /\ lastImport.group = g => setupsRun[g] > 1

\* C14 witness: a deploy request was rejected
C14_Witness == \E g \in Groups : setupPc[g] = "deployFailed" /\ submits[g] = 1

\* C15: when the import of the outputs file has resolved after a successful
\* deploy, setupAndDeploy has thrown if the file written by the deploy has no
\* entry under the stack name, and otherwise has returned exactly the map the
\* file records under that name.
C15_OutputsOfTheStackOrNotFound ==
    lastImport.group # 0 =>
        IF ~lastImport.file.hasEntry
          THEN lastImport.threw
          ELSE ~lastImport.threw /\ lastImport.outputs = lastImport.file.entry

-----------------------------------------------------------------------------
(* Properties of the name derivation *)

\* the characters of [A-Za-z0-9-]
AllowedNameChars == AlphaNumerics \cup {"-"}

OnlyAllowedChars(s) == \A i \in 1..Len(s) : s[i] \in AllowedNameChars

\* every run of characters that are not alphanumeric replaced by one hyphen
RECURSIVE DropNonAlphaNumerics(_)
DropNonAlphaNumerics(s) ==
    IF s # <<>> /\ Head(s) \notin AlphaNumerics THEN DropNonAlphaNumerics(Tail(s)) ELSE s

RECURSIVE HyphenateRuns(_)
HyphenateRuns(s) ==
    IF s = <<>> THEN <<>>
    ELSE IF Head(s) \notin AlphaNumerics
           THEN <<"-">> \o HyphenateRuns(DropNonAlphaNumerics(Tail(s)))
           ELSE <<Head(s)>> \o HyphenateRuns(Tail(s))

\* C16: the name derived from a group name has only characters of
\* [A-Za-z0-9-], and is the name with every run of non-alphanumeric characters
\* replaced by a single hyphen, placed between the prefix and the user name;
\* likewise the stack name createTestApp derives from its name.
C16_DerivedNameIsSanitized ==
    /\ \A i \in 1..Len(inferCalls) :
          /\ OnlyAllowedChars(inferCalls[i].stackName)
          /\ inferCalls[i].testName # <<>> =>
                inferCalls[i].stackName = StackNameOf(HyphenateRuns(inferCalls[i].testName))
    /\ \A i \in 1..Len(testApps) :
          /\ OnlyAllowedChars(testApps[i].stackName)
          /\ testApps[i].stackName = HyphenateRuns(testApps[i].name)

\* C17: two groups with different names, run by the same user under the same
\* runner, get different stack names.
C17_DifferentGroupsDifferentNames ==
    ( /\ Len(inferCalls) = 2
      /\ inferCalls[1].describeName = inferCalls[2].describeName
      /\ inferCalls[1].testName # inferCalls[2].testName )
    => inferCalls[1].stackName # inferCalls[2].stackName

-----------------------------------------------------------------------------
(* Properties of the aspect *)

\* the policies that keep a resource when it is removed from the stack
RetainPolicies == {"Retain", "RetainExceptOnCreate"}

\* C18: in a stack that was submitted, no node has a retaining deletion policy
\* or update-replace policy, and every bucket has auto delete objects enabled.
C18_NothingRetainedAtSubmission ==
    synthPc = "submitted" =>
        \A i \in 1..Len(graph) :
            /\ graph[i].deletionPolicy \notin RetainPolicies
            /\ graph[i].updateReplacePolicy \notin RetainPolicies
            /\ graph[i].kind \in {"Bucket", "CfnBucket"} => graph[i].autoDeleteObjects

-----------------------------------------------------------------------------
(* Properties of s3 *)

\* C19: objectExists and toHaveKey give false only when the store answered
\* not found; when the store answered with a permission or network error, the
\* call has thrown.
C19_OnlyNotFoundIsFalse ==
    lastOp.op \in {"objectExists", "toHaveKey"} =>
        /\ lastOp.answer \in StoreFaults => lastOp.threw
        /\ (~lastOp.ok /\ ~lastOp.threw) => lastOp.answer = "NotFound"

\* the latest call was op on a key, answered by the store without a fault
Probed(op) == lastOp.op = op /\ lastOp.fault = NoFault
Written(k) == putBody[k] # Absent

\* the parts of C20 that do not depend on the kind of body
ProbeBasics ==
    /\ \A k \in Keys : Written(k) <=> store[k] # Absent
    /\ Probed("createObject") => lastOp.ok /\ Written(lastOp.key)
    /\ Probed("objectExists") => (lastOp.ok <=> Written(lastOp.key))
    /\ (Probed("getObjectContent") /\ ~Written(lastOp.key)) => lastOp.content = Absent
    /\ lastOp.op \in {"objectExists", "toHaveKey", "getObjectContent"} => ~lastOp.changedStore

\* C20 as stated: against a store that answers without faults, after
\* createObject returned true for a key, objectExists gives true and
\* getObjectContent gives the body; for a key never written objectExists gives
\* false and getObjectContent undefined; the two reads never change the store.
C20_RoundTrip ==
    /\ ProbeBasics
    /\ (Probed("getObjectContent") /\ Written(lastOp.key)) =>
          lastOp.content = putBody[lastOp.key]

\* C20 amended: as above, but getObjectContent gives the UTF-8 decoding of the
\* bytes of the body as a string, which is the body when the body is a string
\* without lone surrogates.
C20_RoundTripDecoded ==
    /\ ProbeBasics
    /\ (Probed("getObjectContent") /\ Written(lastOp.key)) =>
          \A body \in putBody[lastOp.key] :
              /\ lastOp.content = Present(StringValue(Utf8Decode(BytesOf(body))))
              /\ (body.type = "string" /\ \A i \in 1..Len(body.data) : body.data[i] # LoneSurrogate)
                    => lastOp.content = Present(body)

\* C20 witness: a buffer that is not UTF-8 was written, and read back as a
\* string that is not the body
C20_Witness ==
    /\ Probed("getObjectContent")
    /\ putBody[lastOp.key] = Present([type |-> "buffer", data |-> <<104, 255>>])
    /\ lastOp.content = Present(StringValue(<<"h", ReplacementChar>>))

-----------------------------------------------------------------------------
(* Properties of the toCompleteStepFunctionsExecution matcher *)

\* the matcher has returned or thrown
MatcherDone == mPc = "done"

\* the local timeout of the matcher: the loop left at a non-terminal status
MatcherTimedOut ==
    MatcherDone /\ ~mIsExpress /\ mFault = "none" /\ mStatus \in NonTerminalStatuses

\* structural equality of JSON values: arrays member by member in order,
\* objects as maps from keys to values
Members(d) == { <<d.keys[i], d.values[i]>> : i \in 1..Len(d.keys) }
StructurallyEqual(a, e) ==
    /\ a.type = e.type
    /\ IF a.type = "array" THEN a.values = e.values ELSE Members(a) = Members(e)

\* C21: the matcher returns a result with pass = false for a remote FAILED,
\* TIMED_OUT or ABORTED, for the local timeout and for a payload mismatch, and
\* throws when the mode query, the start call, the synchronous call or a
\* status query rejects.
C21_FaultsThrowFailuresDoNotPass ==
    MatcherDone =>
        /\ mFault # "none" => mResult.kind = "error"
        /\ mFault = "none" =>
              /\ mResult.kind = "result"
              /\ (mStatus \in {"FAILED", "TIMED_OUT", "ABORTED"} \/ MatcherTimedOut)
                    => ~mResult.pass
              /\ (mStatus = "SUCCEEDED" /\ mExpected # Absent /\ mResult.actual # mExpected)
                    => ~mResult.pass

\* C22: when the execution succeeded and an expected result was given, pass is
\* true exactly when the actual and the expected result are structurally equal;
\* when none was given, pass is true.
C22_PassIffStructurallyEqual ==
    (MatcherDone /\ mFault = "none" /\ mStatus = "SUCCEEDED") =>
        IF mExpected = Absent
          THEN mResult.pass
          ELSE \A a \in mResult.actual, e \in mExpected :
                   mResult.pass <=> StructurallyEqual(a, e)

\* C26: on the same answers of the service the matcher, called without an
\* expected result, ends where execute ends and gives pass = true exactly when
\* execute returns the status SUCCEEDED.
C26_MatcherAgreesWithExecute ==
    /\ MatcherDone <=> execStatus # ""
    /\ (MatcherDone /\ mExpected = Absent) =>
          (mResult.pass <=> execStatus = "SUCCEEDED")

-----------------------------------------------------------------------------
(* Further properties of stepFunctions.execute *)

\* C24: a call of execute comes to its end, and on the standard path it sends
\* at most floor(timeout / 5000) + 2 status queries.
C24_Terminates ==
    /\ [](Durable => nStatus <= (timeout \div PollIntervalMs) + 2)
    /\ (pc # "idle") ~> (pc = "done")

\* the most status queries a call with timeout t sends: the first one is sent
\* whatever t is
MaxQueries(t) ==
    IF (t \div PollIntervalMs) + 2 < 1 THEN 1 ELSE (t \div PollIntervalMs) + 2

\* C24, amended: a call of execute comes to its end, and on the standard path
\* it sends at most max(1, floor(timeout / 5000) + 2) status queries.
C24_TerminatesWithinMaxQueries ==
    /\ [](Durable => nStatus <= MaxQueries(timeout))
    /\ (pc # "idle") ~> (pc = "done")

\* C24 witness: the local TIMED_OUT after floor(timeout / 5000) + 2 queries
C24_Witness ==
    /\ Durable /\ Returned
    /\ result = LocalTimeoutOutcome
    /\ timeout >= PollIntervalMs
    /\ nStatus = (timeout \div PollIntervalMs) + 2

\* a status answer after which the loop is left: a terminal status, or a
\* non-terminal one that arrived after the deadline
Final(r) == r.status \in TerminalStatuses \/ DeadlineExceeded(r.at)

\* status queries that rejected
RejectedQueries == IF failedCall = "status" THEN 1 ELSE 0

\* C25: the mode query is the first remote call and is made once; on the
\* express path one synchronous call follows and no start, status query or
\* sleep; on the standard path one start call follows, then status queries and
\* no synchronous call; an answer after which the call ends is the last one,
\* and the call has ended with it.
C25_CallsFollowTheStateMachine ==
    /\ nDescribeSM <= 1 /\ nStartSync <= 1 /\ nStart <= 1
    /\ nDescribeSM = 0 => (pc = "idle" /\ nStartSync + nStart + nStatus + nSleep = 0)
    /\ nStartSync = 1 => (isExpress /\ nStart = 0 /\ nStatus = 0 /\ nSleep = 0)
    /\ nStart = 1 => (~isExpress /\ nStartSync = 0)
    /\ nStatus > 0 => nStart = 1
    /\ (Durable /\ Returned) => nStatus >= 1
    /\ (Fast /\ Len(remoteLog) = 1) => pc = "done"
    /\ Durable =>
          /\ \A i \in 1..(Len(remoteLog) - 1) : ~Final(remoteLog[i])
          /\ (Len(remoteLog) > 0 /\ Final(LastResponse)) =>
                (pc = "done" /\ nStatus = Len(remoteLog) /\ nSleep = nStatus - 1)

\* C25 witness: a standard execution that ended at its third status query
C25_Witness ==
    /\ Durable /\ pc = "done"
    /\ nDescribeSM = 1 /\ nStartSync = 0
    /\ nStatus = 3 /\ nSleep = 2
    /\ Final(LastResponse)

\* status queries sent and not yet answered
InFlight == nStatus - Len(remoteLog) - RejectedQueries

\* C27: on the standard path at most one status query is in flight; the first
\* one is sent without a sleep before it, and each further one after the
\* answer to the one before and a sleep of 5000 ms.
C27_QueriesAreSequential ==
    ~isExpress =>
        /\ InFlight \in {0, 1}
        /\ InFlight = 1 <=> pc = "status"
        /\ pc = "status" =>
              /\ nSleep = nStatus - 1
              /\ nStatus > 1 => issuedAt >= remoteLog[nStatus - 1].at + PollIntervalMs
        /\ pc = "sleep" => (nSleep = nStatus /\ Len(remoteLog) = nStatus)

\* C27 witness: the second query, in flight 5000 ms after the first answer
C27_Witness ==
    /\ ~isExpress /\ pc = "status"
    /\ nStatus = 2 /\ nSleep = 1
    /\ Len(remoteLog) = 1
    /\ issuedAt = remoteLog[1].at + PollIntervalMs

\* C28: no StopExecution is ever sent, and when the local TIMED_OUT is returned
\* the execution was, as last seen, not in a terminal status.
C28_NoStopOnLocalTimeout ==
    /\ nStop = 0
    /\ (pc = "done" /\ result = LocalTimeoutOutcome) =>
          LastResponse.status \in NonTerminalStatuses

\* C28 witness: the local TIMED_OUT with the execution last seen RUNNING
C28_Witness ==
    /\ pc = "done" /\ result = LocalTimeoutOutcome
    /\ LastResponse.status = "RUNNING"
    /\ nStop = 0

\* C30: the deadline runs from the invocation of execute (the clock is at 0
\* then): a first status answer that is not terminal and arrives later than
\* timeout after the invocation ends the call with the local TIMED_OUT, however
\* short the time since the execution was started.
C30_DeadlineRunsFromInvocation ==
    /\ pc # "idle" => startTime = 0
    /\ (Durable /\ Len(remoteLog) >= 1
          /\ remoteLog[1].status \notin TerminalStatuses
          /\ remoteLog[1].at > timeout)
        => (pc = "done" /\ result = LocalTimeoutOutcome /\ nStatus = 1)

\* C30 witness: the local TIMED_OUT at a first status query that was answered
\* at once, the timeout having been used up by the mode query and the start call
C30_Witness ==
    /\ Durable /\ pc = "done" /\ result = LocalTimeoutOutcome
    /\ nStatus = 1
    /\ timeout > 0
    /\ remoteLog[1].at = issuedAt

-----------------------------------------------------------------------------
(* The aspect and the order of the visits *)

\* the policy a node ends with, from its own kind and policy alone
FinalPolicy(kind, policy) ==
    IF kind = "Bucket" \/ policy = "Retain" THEN "Delete" ELSE policy

-----------------------------------------------------------------------------
(* Properties of the build of a stack *)

\* the hook of group g was rejected before anything was submitted
BuildFailed(g) == setupPc[g] \in {"callbackThrew", "registerThrew"}

\* C23: once the hook of a group is past the construction callback, a group
\* with the empty name has failed and has submitted nothing, and a group whose
\* callback threw has submitted nothing.
C23_EmptyNameOrThrowSubmitsNothing ==
    \A g \in described :
        (setupsRun[g] > 0 /\ setupPc[g] # "constructing") =>
            /\ groupName[g] = <<>> => (BuildFailed(g) /\ submits[g] = 0)
            /\ setupPc[g] = "callbackThrew" => submits[g] = 0

-----------------------------------------------------------------------------
(* The first status query *)

\* C31: on the standard path the local TIMED_OUT is returned only after a
\* status query was sent and answered, whatever the timeout and however late
\* the execution was started; an execution that is terminal at the first query
\* is returned with the status and output of that answer.
C31_QueryBeforeLocalTimeout ==
    Durable =>
        /\ (pc = "done" /\ result = LocalTimeoutOutcome) =>
              (nStatus >= 1 /\ Len(remoteLog) = nStatus)
        /\ (Len(remoteLog) >= 1 /\ remoteLog[1].status \in TerminalStatuses) =>
              /\ pc = "done"
              /\ nStatus = 1
              /\ result = RemoteOutcome(remoteLog[1].status, remoteLog[1].output)

\* C31 witness: a negative timeout, the execution started after some time, and
\* the first query answered SUCCEEDED
C31_Witness ==
    /\ Durable /\ pc = "done"
    /\ timeout < 0
    /\ issuedAt > startTime
    /\ nStatus = 1
    /\ remoteLog[1].status = "SUCCEEDED"
    /\ result.status = "SUCCEEDED"

-----------------------------------------------------------------------------
(* The destroy request of the afterAll hook *)

\* C32: once the afterAll hook has run with destroy enabled, the instance has
\* sent exactly one destroy request, for the stack name that the setup started
\* last has assigned, however many setups ran.
C32_OneDestroyOfTheLatestStack ==
    (teardownPc # "pending" /\ DestroyEnabled(destroyEnv)) =>
        /\ Len(destroyRequests) = 1
        /\ destroyRequests[1] = stackName
        /\ app # NoApp

====
